---------------------------- MODULE Spec2Model ----------------------------
(***************************************************************************)
(* TrendRadar: keyword rulebook (trendradar/core/frequency.py) and report  *)
(* data preparation (trendradar/report/generator.py).                      *)
(*                                                                         *)
(* Text is modelled as a sequence of characters.  A character is a string  *)
(* naming one code point: "a", "k", "A", "7", "-", " " stand for           *)
(* themselves, "U+65B0" is the CJK character U+65B0 and "U+212A" is the    *)
(* KELVIN SIGN (a non-ASCII letter whose lower case is ASCII "k").         *)
(***************************************************************************)
EXTENDS Integers, Sequences, FiniteSets, TLC

VARIABLES
    op,              \* the function called last ("none" before any call)
    ret,             \* what that call returned
    title,           \* matches_group / matches_word_groups / _keyword_in_title: title
    keyword,         \* _keyword_in_title: keyword
    group,           \* matches_group: group
    word_groups,     \* matches_word_groups: word_groups
    filter_words,    \* matches_word_groups: filter_words; load_frequency_words: filter_words
    global_filters,  \* matches_word_groups: global_filters; load_frequency_words: global_filters
    content,         \* load_frequency_words: the file's text, as its lines
    blocks,          \* load_frequency_words: the blank-line separated blocks (local word_groups)
    next_block,      \* load_frequency_words: index of the block the for loop takes next
    current_section, \* load_frequency_words: current_section
    processed_groups,\* load_frequency_words: processed_groups
    stats,           \* prepare_report_data: stats
    rss_stats,       \* prepare_report_data: rss_stats
    new_titles,      \* prepare_report_data: new_titles, as a sequence of <<source_id, titles>>
    id_to_name,      \* prepare_report_data: id_to_name, as a set of <<source_id, name>>
    mode,            \* prepare_report_data: mode
    funcs,           \* prepare_report_data: the two injected callables (or None)
    merged_stats,    \* prepare_report_data: local stats after the merge block (line 101)
    payload,         \* prepare_report_data: the returned dict
    raised           \* prepare_report_data: the exception that ended the call ("" if none)

vars == <<op, ret, title, keyword, group, word_groups, filter_words, global_filters,
          content, blocks, next_block, current_section, processed_groups,
          stats, rss_stats, new_titles, id_to_name, mode, funcs, merged_stats, payload, raised>>

matchVars == <<title, keyword, group, word_groups>>
rulebookVars == <<filter_words, global_filters>>
loaderVars == <<content, blocks, next_block, current_section, processed_groups>>
reportVars == <<stats, rss_stats, new_titles, id_to_name, mode, funcs>>
reportOut == <<merged_stats, payload, raised>>

-----------------------------------------------------------------------------
(* Bounds of the model.                                                    *)

MaxTitleLen == 3      \* _keyword_in_title: longest title enumerated in full
MaxAffix == 1         \* _keyword_in_title: characters put around an embedded keyword
MaxGroupWords == 2    \* matches_group: longest required / normal list
MaxGroupTitleLen == 3 \* matches_group: longest title
MaxGroups == 2        \* matches_word_groups: longest word_groups list
MaxFilters == 1       \* matches_word_groups: longest filter_words / global_filters list
MaxAdmitTitleLen == 3 \* matches_word_groups: longest title
MaxLines == 4         \* load_frequency_words: lines of the rulebook file
MaxEntries == 3       \* prepare_report_data: entries of stats and rss_stats together
MaxPersonalTitles == 3    \* prepare_report_data: titles of the personal RSS group
MaxTitlesPerSource == 2   \* prepare_report_data: new titles of one source

-----------------------------------------------------------------------------
(* Sequence helpers.                                                       *)

SeqsUpTo(S, n) == UNION {[1..k -> S] : k \in 0..n}

Range(s) == {s[i] : i \in 1..Len(s)}

\* Python's "needle in haystack" on str
IsSubstring(needle, hay) ==
    \E i \in 1..(Len(hay) - Len(needle) + 1) :
        \A j \in 1..Len(needle) : hay[i + j - 1] = needle[j]

-----------------------------------------------------------------------------
(* Characters.                                                             *)

Kelvin == "U+212A"
Cjk == "U+65B0"

Alphabet == {"a", "k", "A", "7", "-", Cjk, Kelvin}

\* str.isascii() and str.isalnum() of one character
IsAsciiAlnum(c) == c \in {"a", "k", "A", "7"}

\* str.isspace() of one character (what str.strip() removes)
IsSpace(c) == c = " "

\* str.lower() of one character
LowerChar(c) ==
    CASE c = "A" -> "a"
      [] c = Kelvin -> "k"
      [] OTHER -> c

\* str.lower()
Lower(s) == [i \in 1..Len(s) |-> LowerChar(s[i])]

\* re.IGNORECASE comparison of a pattern literal with a subject character
ReCharMatches(p, c) == LowerChar(c) = LowerChar(p)

\* the class [A-Za-z0-9] compiled with re.IGNORECASE: the ASCII letters and
\* digits and the non-ASCII letters that case-fold into A-Z (here U+212A)
ReClassAlnum(c) == IsAsciiAlnum(c) \/ c = Kelvin

-----------------------------------------------------------------------------
(* MatchEngine: trendradar/core/frequency.py                               *)

_should_use_ascii_word_boundary(kw) ==
    /\ kw # <<>>
    /\ Len(kw) >= 2
    /\ Len(kw) <= 4
    /\ \A i \in 1..Len(kw) : IsAsciiAlnum(kw[i])

\* _compile_ascii_boundary_pattern(keyword_lower).search(subject):
\* (?<![A-Za-z0-9])keyword(?![A-Za-z0-9]) with re.IGNORECASE
BoundaryPatternSearch(keyword_lower, subject) ==
    \E i \in 1..(Len(subject) - Len(keyword_lower) + 1) :
        /\ i = 1 \/ ~ReClassAlnum(subject[i - 1])
        /\ \A j \in 1..Len(keyword_lower) :
              ReCharMatches(keyword_lower[j], subject[i + j - 1])
        /\ \/ i + Len(keyword_lower) > Len(subject)
           \/ ~ReClassAlnum(subject[i + Len(keyword_lower)])

_keyword_in_title(t, title_lower, kw) ==
    IF kw = <<>> THEN FALSE
    ELSE IF _should_use_ascii_word_boundary(kw)
         THEN BoundaryPatternSearch(Lower(kw), t)
         ELSE IsSubstring(Lower(kw), title_lower)

\* matches_group with the required words tested like the normal ones (any)
matches_group_AnyRequired(t, g) ==
    IF t = <<>> THEN FALSE
    ELSE LET title_lower == Lower(t)
         IN  /\ \/ g.required = <<>>
                \/ \E i \in 1..Len(g.required) :
                      _keyword_in_title(t, title_lower, g.required[i])
             /\ \/ g.normal = <<>>
                \/ \E i \in 1..Len(g.normal) :
                      _keyword_in_title(t, title_lower, g.normal[i])

matches_group(t, g) ==
    IF t = <<>> THEN FALSE
    ELSE LET title_lower == Lower(t)
             required_words == g.required
             normal_words == g.normal
         IN  IF /\ required_words # <<>>
                /\ ~(\A i \in 1..Len(required_words) :
                        _keyword_in_title(t, title_lower, required_words[i]))
             THEN FALSE
             ELSE IF /\ normal_words # <<>>
                     /\ ~(\E i \in 1..Len(normal_words) :
                             _keyword_in_title(t, title_lower, normal_words[i]))
                  THEN FALSE
                  ELSE TRUE

\* title.strip(): the title without leading and trailing white space is empty
\* exactly when every character of it is white space
StripIsEmpty(t) == \A i \in 1..Len(t) : IsSpace(t[i])

\* matches_word_groups with the "no groups" pass-through tested first
matches_word_groups_PassThroughFirst(t, wgs, fws, gfs) ==
    IF StripIsEmpty(t) THEN FALSE
    ELSE LET title_lower == Lower(t)
         IN  IF wgs = <<>> THEN TRUE
             ELSE IF \E i \in 1..Len(gfs) : _keyword_in_title(t, title_lower, gfs[i])
             THEN FALSE
             ELSE IF \E i \in 1..Len(fws) : _keyword_in_title(t, title_lower, fws[i])
             THEN FALSE
             ELSE \E i \in 1..Len(wgs) : matches_group(t, wgs[i])

\* matches_word_groups with the filter words tested before the pass-through
matches_word_groups_FilterFirst(t, wgs, fws, gfs) ==
    IF StripIsEmpty(t) THEN FALSE
    ELSE LET title_lower == Lower(t)
         IN  IF \E i \in 1..Len(gfs) : _keyword_in_title(t, title_lower, gfs[i])
             THEN FALSE
             ELSE IF \E i \in 1..Len(fws) : _keyword_in_title(t, title_lower, fws[i])
             THEN FALSE
             ELSE IF wgs = <<>> THEN TRUE
             ELSE \E i \in 1..Len(wgs) : matches_group(t, wgs[i])

matches_word_groups(t, wgs, fws, gfs) ==
    IF StripIsEmpty(t) THEN FALSE
    ELSE LET title_lower == Lower(t)
         IN  IF /\ gfs # <<>>
                /\ \E i \in 1..Len(gfs) : _keyword_in_title(t, title_lower, gfs[i])
             THEN FALSE
             ELSE IF wgs = <<>> THEN TRUE
             ELSE IF \E i \in 1..Len(fws) : _keyword_in_title(t, title_lower, fws[i])
             THEN FALSE
             ELSE \E i \in 1..Len(wgs) : matches_group(t, wgs[i])

-----------------------------------------------------------------------------
(* Values the variables of the other components hold while one component   *)
(* is exercised.                                                           *)

EmptyGroup == [required |-> <<>>, normal |-> <<>>]

IdleMatch ==
    /\ title = <<>>
    /\ keyword = <<>>
    /\ group = EmptyGroup
    /\ word_groups = <<>>

IdleRulebook ==
    /\ filter_words = <<>>
    /\ global_filters = <<>>

IdleLoader ==
    /\ content = <<>>
    /\ blocks = <<>>
    /\ next_block = 1
    /\ current_section = "WORD_GROUPS"
    /\ processed_groups = <<>>

IdleReport ==
    /\ stats = <<>>
    /\ rss_stats = <<>>
    /\ new_titles = <<>>
    /\ id_to_name = {}
    /\ mode = "daily"
    /\ funcs = [matches_supplied |-> FALSE, load_supplied |-> FALSE, admits |-> {}]
    /\ merged_stats = <<>>
    /\ payload = "none"
    /\ raised = ""

-----------------------------------------------------------------------------
(* _keyword_in_title on enumerated titles and keywords.                    *)

\* keywords of every shape the matcher distinguishes: empty, one character,
\* short ASCII (2..4), longer than 4, with a symbol, with a non-ASCII character
KeywordPool ==
    { <<>>, <<"k">>, <<Cjk>>, <<Kelvin>>,
      <<"a", "k">>, <<"A", "k">>, <<"a", "7">>, <<"a", "k", "a">>,
      <<"a", "k", "a", "k">>, <<"a", "k", "a", "k", "a">>,
      <<"a", "-">>, <<"a", Cjk>>, <<"A", "k", "-", "7", "a">> }

TitlePool ==
    SeqsUpTo(Alphabet, MaxTitleLen)
    \cup { pre \o kw \o post : kw \in KeywordPool,
                               pre \in SeqsUpTo(Alphabet, MaxAffix),
                               post \in SeqsUpTo(Alphabet, MaxAffix) }

InitKeyword ==
    /\ op = "none"
    /\ ret = "none"
    /\ title \in TitlePool
    /\ keyword \in KeywordPool
    /\ group = EmptyGroup
    /\ word_groups = <<>>
    /\ IdleRulebook
    /\ IdleLoader
    /\ IdleReport

\* callers pass title.lower() as title_lower (lines 195, 236)
Call_keyword_in_title ==
    /\ op = "none"
    /\ op' = "_keyword_in_title"
    /\ ret' = _keyword_in_title(title, Lower(title), keyword)
    /\ UNCHANGED <<matchVars, rulebookVars, loaderVars, reportVars, reportOut>>

NextKeyword == Call_keyword_in_title

SpecKeyword == InitKeyword /\ [][NextKeyword]_vars

-----------------------------------------------------------------------------
(* matches_group on enumerated titles and groups.                          *)

GroupAlphabet == {"a", "k", Cjk}

GroupKeywords == { <<"a", "k">>, <<"a">>, <<Cjk>> }

\* matches_group takes any group its caller hands it, a group with both lists
\* empty included
InitGroup ==
    /\ op = "none"
    /\ ret = "none"
    /\ title \in SeqsUpTo(GroupAlphabet, MaxGroupTitleLen)
    /\ keyword = <<>>
    /\ group \in [required : SeqsUpTo(GroupKeywords, MaxGroupWords),
                  normal : SeqsUpTo(GroupKeywords, MaxGroupWords)]
    /\ word_groups = <<>>
    /\ IdleRulebook
    /\ IdleLoader
    /\ IdleReport

Call_matches_group ==
    /\ op = "none"
    /\ op' = "matches_group"
    /\ ret' = matches_group(title, group)
    /\ UNCHANGED <<matchVars, rulebookVars, loaderVars, reportVars, reportOut>>

NextGroup == Call_matches_group

SpecGroup == InitGroup /\ [][NextGroup]_vars

-----------------------------------------------------------------------------
(* matches_word_groups on enumerated titles and rulebooks.                 *)

AdmitAlphabet == {"a", "k", " "}

\* groups as load_frequency_words emits them: required or normal is non-empty
AdmitGroups ==
    { [required |-> <<<<"a", "k">>>>, normal |-> <<>>],
      [required |-> <<>>, normal |-> <<<<"a">>, <<"k", "k">>>>],
      [required |-> <<<<"k">>>>, normal |-> <<<<"a", "k">>>>] }

AdmitFilters == { <<"a", "k">>, <<"k">> }

InitAdmit ==
    /\ op = "none"
    /\ ret = "none"
    /\ title \in SeqsUpTo(AdmitAlphabet, MaxAdmitTitleLen)
    /\ keyword = <<>>
    /\ group = EmptyGroup
    /\ word_groups \in SeqsUpTo(AdmitGroups, MaxGroups)
    /\ filter_words \in SeqsUpTo(AdmitFilters, MaxFilters)
    /\ global_filters \in SeqsUpTo(AdmitFilters, MaxFilters)
    /\ IdleLoader
    /\ IdleReport

Call_matches_word_groups ==
    /\ op = "none"
    /\ op' = "matches_word_groups"
    /\ ret' = matches_word_groups(title, word_groups, filter_words, global_filters)
    /\ UNCHANGED <<matchVars, rulebookVars, loaderVars, reportVars, reportOut>>

NextAdmit == Call_matches_word_groups

SpecAdmit == InitAdmit /\ [][NextAdmit]_vars

-----------------------------------------------------------------------------
(* Claims about the MatchEngine.                                           *)

\* "keyword matches title": the keyword-in-title test as its callers run it
KeywordMatches(kw, t) == _keyword_in_title(t, Lower(t), kw)

AnyMatches(kws, t) == \E i \in 1..Len(kws) : KeywordMatches(kws[i], t)

AllMatch(kws, t) == \A i \in 1..Len(kws) : KeywordMatches(kws[i], t)

\* C1: exclusion keywords override group matches: matches_word_groups is false
\* whenever a global filter keyword matches the title, whatever the groups and
\* filter words are, and, with at least one group configured, whenever a
\* filter word matches the title, even when the title matches a group.
C1_ExclusionOverrides ==
    op = "matches_word_groups" =>
        /\ AnyMatches(global_filters, title) => ret = FALSE
        /\ (word_groups # <<>> /\ AnyMatches(filter_words, title)) => ret = FALSE

\* a title that matches a group and is rejected by a filter word, no global
\* filter matching it
C1_Witness ==
    /\ op = "matches_word_groups"
    /\ \E i \in 1..Len(word_groups) : matches_group(title, word_groups[i])
    /\ AnyMatches(filter_words, title)
    /\ ~AnyMatches(global_filters, title)
    /\ global_filters # <<>>
    /\ ret = FALSE

GroupRule(t, g) ==
    /\ g.required = <<>> \/ AllMatch(g.required, t)
    /\ g.normal = <<>> \/ AnyMatches(g.normal, t)

\* a group as load_frequency_words emits it (frequency.py line 116): required
\* or normal is non-empty.  These are the groups of the rulebook; a record
\* with both lists empty is never made into a group.
IsWordGroup(g) == g.required # <<>> \/ g.normal # <<>>

\* C2: for all groups of a rulebook and all titles, the empty title included,
\* matches_group is true iff (required is empty or every required keyword
\* matches) and (normal is empty or some normal keyword matches).  (Handed a
\* record with both lists empty, which is no group of any rulebook,
\* matches_group answers FALSE for the empty title and TRUE for any other.)
C2_GroupRuleOnWordGroups ==
    (op = "matches_group" /\ IsWordGroup(group)) => (ret = GroupRule(title, group))

\* a group with both lists populated matching a title: one required keyword
\* list fully matched, one normal keyword matched and another not
C2_Witness ==
    /\ op = "matches_group"
    /\ title # <<>>
    /\ Len(group.required) >= 2
    /\ AnyMatches(group.normal, title)
    /\ ~AllMatch(group.normal, title)
    /\ ret = TRUE

IsAsciiLetterOrDigit(c) == c \in {"a", "k", "A", "7"}

IsShortAscii(kw) ==
    /\ Len(kw) \in 2..4
    /\ \A i \in 1..Len(kw) : IsAsciiLetterOrDigit(kw[i])

\* a case-insensitive occurrence of kw at index i of t with no ASCII letter or
\* digit right before or right after it
GuardedOccurrence(kw, t, i) ==
    /\ SubSeq(Lower(t), i, i + Len(kw) - 1) = Lower(kw)
    /\ i = 1 \/ ~IsAsciiLetterOrDigit(t[i - 1])
    /\ i + Len(kw) > Len(t) \/ ~IsAsciiLetterOrDigit(t[i + Len(kw)])

\* C3: a short-ASCII keyword (2..4 ASCII letters/digits) matches a title iff
\* the title has a case-insensitive occurrence of it neither preceded nor
\* followed by an ASCII letter or digit (a non-ASCII neighbour is allowed);
\* any other non-empty keyword matches iff its lower case is a substring of
\* the lower-cased title.
C3_BoundaryRule ==
    (op = "_keyword_in_title" /\ keyword # <<>>) =>
        ret = IF IsShortAscii(keyword)
              THEN \E i \in 1..(Len(title) - Len(keyword) + 1) :
                       GuardedOccurrence(keyword, title, i)
              ELSE IsSubstring(Lower(keyword), Lower(title))

\* C4 as stated: with no groups, matches_word_groups is true for every title
\* holding a non-whitespace character.
C4_EmptyRulebookAdmitsAll ==
    (op = "matches_word_groups" /\ word_groups = <<>> /\ ~StripIsEmpty(title))
        => ret = TRUE

\* C4 amended: with no groups, matches_word_groups is true for every non-blank
\* title that no global filter keyword matches (the filter words play no part).
C4_EmptyRulebookAdmitsUnfiltered ==
    (/\ op = "matches_word_groups"
     /\ word_groups = <<>>
     /\ ~StripIsEmpty(title)
     /\ ~AnyMatches(global_filters, title))
        => ret = TRUE

\* no groups, a non-blank title that a filter word matches and that the
\* configured global filter does not match: admitted
C4_Witness ==
    /\ op = "matches_word_groups"
    /\ word_groups = <<>>
    /\ ~StripIsEmpty(title)
    /\ global_filters # <<>>
    /\ ~AnyMatches(global_filters, title)
    /\ AnyMatches(filter_words, title)
    /\ ret = TRUE

-----------------------------------------------------------------------------
(* RuleLoader: load_frequency_words, trendradar/core/frequency.py          *)
(*                                                                         *)
(* The file's text is modelled as the sequence of its lines (the text      *)
(* between "\n" characters).  A line is a sequence of tokens; a token is   *)
(* one character ("[", "]", "!", "+", "@", " ") or an indivisible run of   *)
(* letters or digits ("GLOBAL_FILTER", "x", "3").                          *)

\* str.strip() of a line
RECURSIVE StripLeft(_)
StripLeft(line) ==
    IF line # <<>> /\ Head(line) = " " THEN StripLeft(Tail(line)) ELSE line

RECURSIVE StripRight(_)
StripRight(line) ==
    IF line # <<>> /\ line[Len(line)] = " "
    THEN StripRight(SubSeq(line, 1, Len(line) - 1))
    ELSE line

Strip(line) == StripRight(StripLeft(line))

\* content.split("\n\n"): two consecutive "\n" end a piece, so the pieces are
\* the runs of lines between empty lines (a line of spaces does not split);
\* a third "\n" in a row stays in front of the next piece and is stripped
RECURSIVE SplitOnEmptyLines(_, _)
SplitOnEmptyLines(lines, piece) ==
    IF lines = <<>> THEN <<piece>>
    ELSE IF Head(lines) = <<>>
         THEN <<piece>> \o SplitOnEmptyLines(Tail(lines), <<>>)
         ELSE SplitOnEmptyLines(Tail(lines), Append(piece, Head(lines)))

\* [line.strip() for line in group.split("\n") if line.strip()]  (line 68)
StrippedLines(piece) ==
    LET stripped == [i \in 1..Len(piece) |-> Strip(piece[i])]
    IN  SelectSeq(stripped, LAMBDA l : l # <<>>)

\* a line that str.strip() empties
IsBlankLine(line) == Strip(line) = <<>>

RECURSIVE DropLeadingBlankLines(_)
DropLeadingBlankLines(piece) ==
    IF piece # <<>> /\ IsBlankLine(Head(piece))
    THEN DropLeadingBlankLines(Tail(piece))
    ELSE piece

RECURSIVE DropTrailingBlankLines(_)
DropTrailingBlankLines(piece) ==
    IF piece # <<>> /\ IsBlankLine(piece[Len(piece)])
    THEN DropTrailingBlankLines(SubSeq(piece, 1, Len(piece) - 1))
    ELSE piece

\* group.strip() of line 58: the blanks and "\n" at both ends of the piece go,
\* that is its leading and trailing blank lines, the blanks in front of its
\* first line and the blanks behind its last line; inner lines stay as they are
GroupStrip(piece) ==
    LET kept == DropTrailingBlankLines(DropLeadingBlankLines(piece))
    IN  [i \in 1..Len(kept) |->
            LET left == IF i = 1 THEN StripLeft(kept[i]) ELSE kept[i]
            IN  IF i = Len(kept) THEN StripRight(left) ELSE left]

\* [group.strip() for group in content.split("\n\n") if group.strip()]  (line 58)
SplitBlocks(text) ==
    LET pieces == SplitOnEmptyLines(text, <<>>)
    IN  SelectSeq([i \in 1..Len(pieces) |-> GroupStrip(pieces[i])],
                  LAMBDA g : g # <<>>)

\* str.upper() of a token
UpperToken(tok) ==
    CASE tok = "global_filter" -> "GLOBAL_FILTER"
      [] tok = "Word_Groups" -> "WORD_GROUPS"
      [] tok = "x" -> "X"
      [] tok = "y" -> "Y"
      [] tok = "z" -> "Z"
      [] OTHER -> tok

Upper(line) == [i \in 1..Len(line) |-> UpperToken(line[i])]

StartsWith(line, tok) == line # <<>> /\ Head(line) = tok

EndsWith(line, tok) == line # <<>> /\ line[Len(line)] = tok

\* lines 74-76: lines[0] is a section tag the loader recognizes
IsSectionTag(line) ==
    /\ StartsWith(line, "[")
    /\ EndsWith(line, "]")
    /\ Upper(SubSeq(line, 2, Len(line) - 1)) \in {<<"GLOBAL_FILTER">>, <<"WORD_GROUPS">>}

\* a variant that takes any bracketed first line for a switch back to the default
SectionAfter_AnyTagSwitches(section, lines) ==
    IF StartsWith(lines[1], "[") /\ EndsWith(lines[1], "]")
    THEN IF IsSectionTag(lines[1])
         THEN Upper(SubSeq(lines[1], 2, Len(lines[1]) - 1))[1]
         ELSE "WORD_GROUPS"
    ELSE section

\* lines 74-77: current_section after the block's first line is examined
SectionAfter(section, lines) ==
    IF IsSectionTag(lines[1])
    THEN Upper(SubSeq(lines[1], 2, Len(lines[1]) - 1))[1]
    ELSE section

\* line 78: the block's lines with a recognized tag line removed
LinesAfterTag(lines) == IF IsSectionTag(lines[1]) THEN Tail(lines) ELSE lines

\* line 85: line.startswith(("!", "+", "@"))
HasSpecialPrefix(line) ==
    StartsWith(line, "!") \/ StartsWith(line, "+") \/ StartsWith(line, "@")

\* lines 83-88: what a block adds to global_filters in the GLOBAL_FILTER section
GlobalFilterLines(lines) == SelectSeq(lines, LAMBDA l : ~HasSpecialPrefix(l))

\* the digit tokens and their values
DigitTokens == {"0", "1", "2", "3", "4", "5", "6", "7", "8", "9"}

DigitValue(tok) ==
    CASE tok = "0" -> 0 [] tok = "1" -> 1 [] tok = "2" -> 2 [] tok = "3" -> 3
      [] tok = "4" -> 4 [] tok = "5" -> 5 [] tok = "6" -> 6 [] tok = "7" -> 7
      [] tok = "8" -> 8 [] tok = "9" -> 9

\* the number a run of digit tokens writes in base 10
RECURSIVE DecimalValue(_)
DecimalValue(digits) ==
    IF digits = <<>> THEN 0
    ELSE 10 * DecimalValue(SubSeq(digits, 1, Len(digits) - 1))
            + DigitValue(digits[Len(digits)])

\* int(word[1:]) of line 103: ok and the number, or not ok (ValueError).
\* int() drops the blanks around the text and takes one sign in front of a
\* non-empty run of digits.
ParseInt(text) ==
    LET stripped == Strip(text)
        signed == stripped # <<>> /\ stripped[1] \in {"+", "-"}
        digits == IF signed THEN Tail(stripped) ELSE stripped
        wellFormed == /\ digits # <<>>
                      /\ \A i \in 1..Len(digits) : digits[i] \in DigitTokens
    IN  IF wellFormed
        THEN [ok |-> TRUE,
              value |-> IF signed /\ stripped[1] = "-"
                        THEN 0 - DecimalValue(digits)
                        ELSE DecimalValue(digits)]
        ELSE [ok |-> FALSE, value |-> 0]

\* lines 99-114: the for loop over the words of a word-group block
RECURSIVE ScanWords(_, _)
ScanWords(words, acc) ==
    IF words = <<>> THEN acc
    ELSE LET word == Head(words)
             count == ParseInt(Tail(word))
             next ==
                 IF StartsWith(word, "@")
                 THEN IF count.ok /\ count.value > 0
                      THEN [acc EXCEPT !.max_count = count.value]
                      ELSE acc
                 ELSE IF StartsWith(word, "!")
                 THEN [acc EXCEPT !.filter = Append(@, Tail(word))]
                 ELSE IF StartsWith(word, "+")
                 THEN [acc EXCEPT !.required = Append(@, Tail(word))]
                 ELSE [acc EXCEPT !.normal = Append(@, word)]
         IN  ScanWords(Tail(words), next)

\* " ".join(words)
RECURSIVE JoinWithSpace(_)
JoinWithSpace(words) ==
    IF words = <<>> THEN <<>>
    ELSE IF Len(words) = 1 THEN words[1]
    ELSE words[1] \o <<" ">> \o JoinWithSpace(Tail(words))

\* lines 116-129: the group a word-group block emits (none when it has neither
\* required nor normal words)
GroupsOf(scan) ==
    IF scan.required # <<>> \/ scan.normal # <<>>
    THEN << [required |-> scan.required,
             normal |-> scan.normal,
             group_key |-> IF scan.normal # <<>>
                           THEN JoinWithSpace(scan.normal)
                           ELSE JoinWithSpace(scan.required),
             max_count |-> scan.max_count] >>
    ELSE <<>>

LinePool ==
    { <<>>, <<" ">>,
      <<"[", "GLOBAL_FILTER", "]">>, <<" ", "[", "global_filter", "]">>,
      <<"[", "Word_Groups", "]">>, <<"[", "OTHER", "]">>,
      <<"!", "x">>, <<"+", "y">>, <<"@", "3">>, <<"z", " ">> }

InitLoad ==
    /\ op = "none"
    /\ ret = "none"
    /\ IdleMatch
    /\ IdleRulebook
    /\ content \in [1..MaxLines -> LinePool]
    /\ blocks = <<>>
    /\ next_block = 1
    /\ current_section = "WORD_GROUPS"
    /\ processed_groups = <<>>
    /\ IdleReport

\* lines 55-65: read the file, split it into blocks, start in WORD_GROUPS
Load_begin ==
    /\ op = "none"
    /\ op' = "load_frequency_words:for"
    /\ blocks' = SplitBlocks(content)
    /\ next_block' = 1
    /\ current_section' = "WORD_GROUPS"
    /\ processed_groups' = <<>>
    /\ filter_words' = <<>>
    /\ global_filters' = <<>>
    /\ UNCHANGED <<ret, content, matchVars, reportVars, reportOut>>

\* lines 67-129: one pass of the for loop over the blocks
Load_block ==
    /\ op = "load_frequency_words:for"
    /\ next_block <= Len(blocks)
    /\ LET lines0 == StrippedLines(blocks[next_block])
           section == SectionAfter(current_section, lines0)
           lines == LinesAfterTag(lines0)
           scan == ScanWords(lines, [required |-> <<>>, normal |-> <<>>,
                                     filter |-> <<>>, max_count |-> 0])
       IN  /\ current_section' = section
           /\ IF section = "GLOBAL_FILTER"
              THEN /\ global_filters' = global_filters \o GlobalFilterLines(lines)
                   /\ UNCHANGED <<filter_words, processed_groups>>
              ELSE /\ filter_words' = filter_words \o scan.filter
                   /\ processed_groups' = processed_groups \o GroupsOf(scan)
                   /\ UNCHANGED global_filters
    /\ next_block' = next_block + 1
    /\ UNCHANGED <<op, ret, content, blocks, matchVars, reportVars, reportOut>>

\* line 131
Load_return ==
    /\ op = "load_frequency_words:for"
    /\ next_block > Len(blocks)
    /\ op' = "load_frequency_words"
    /\ ret' = <<processed_groups, filter_words, global_filters>>
    /\ UNCHANGED <<rulebookVars, loaderVars, matchVars, reportVars, reportOut>>

NextLoad == Load_begin \/ Load_block \/ Load_return

SpecLoad == InitLoad /\ [][NextLoad]_vars

-----------------------------------------------------------------------------
(* Claims about the RuleLoader.                                            *)

\* the section a line names when it is a recognized tag, else "none"
TagNamed(line) ==
    IF line \in { <<"[", "GLOBAL_FILTER", "]">>, <<"[", "global_filter", "]">> }
    THEN "GLOBAL_FILTER"
    ELSE IF line \in { <<"[", "WORD_GROUPS", "]">>, <<"[", "Word_Groups", "]">> }
         THEN "WORD_GROUPS"
         ELSE "none"

StartsWithAnyOf(line, toks) == line # <<>> /\ line[1] \in toks

\* C10: the current section starts as WORD_GROUPS and changes only at a block
\* whose first line is a recognized tag ([GLOBAL_FILTER] or [WORD_GROUPS], in
\* any case), an unrecognized bracketed first line being content; a block
\* parsed in section GLOBAL_FILTER adds exactly its lines other than the tag
\* line that do not start with "!", "+" or "@" to global_filters, in order,
\* and adds no group and no filter word; a block parsed in section
\* WORD_GROUPS adds nothing to global_filters.
C10_SectionRule ==
    [][ /\ (op = "none" /\ op' = "load_frequency_words:for")
            => current_section' = "WORD_GROUPS"
        /\ (op = "load_frequency_words:for" /\ next_block' = next_block + 1)
            => LET blk == StrippedLines(blocks[next_block])
                   tag == TagNamed(blk[1])
                   body == IF tag # "none" THEN Tail(blk) ELSE blk
                   plain == SelectSeq(body,
                              LAMBDA l : ~StartsWithAnyOf(l, {"!", "+", "@"}))
               IN  /\ current_section' = IF tag # "none" THEN tag ELSE current_section
                   /\ current_section' = "GLOBAL_FILTER"
                        => /\ global_filters' = global_filters \o plain
                           /\ processed_groups' = processed_groups
                           /\ filter_words' = filter_words
                   /\ current_section' = "WORD_GROUPS"
                        => global_filters' = global_filters
      ]_vars

\* the second block has no tag of its own, was parsed in the GLOBAL_FILTER
\* section opened by the first, and its "!" line was left out
C10_Witness ==
    /\ op = "load_frequency_words:for"
    /\ next_block = 3
    /\ current_section = "GLOBAL_FILTER"
    /\ TagNamed(StrippedLines(blocks[2])[1]) = "none"
    /\ \E i \in 1..Len(blocks[2]) : StartsWithAnyOf(blocks[2][i], {"!"})
    /\ Len(global_filters) = 1
    /\ filter_words = <<>>
    /\ processed_groups = <<>>

-----------------------------------------------------------------------------
(* StatMerger: prepare_report_data lines 50-101, report/generator.py       *)
(*                                                                         *)
(* A field of a stat dict holds an int, a str that int() and float()       *)
(* reject (such as "abc"), or is absent from the dict.                     *)

V(n) == [kind |-> "int", num |-> n]
Absent == [kind |-> "absent", num |-> 0]
BadStr == [kind |-> "str", num |-> 0]

\* d.get(key, default)
GetOr(v, default) == IF v.kind = "absent" THEN V(default) ELSE v

\* x or default
OrElse(v, default) ==
    IF v.kind = "str" \/ (v.kind = "int" /\ v.num # 0) THEN v ELSE V(default)

\* int(x) / float(x): ok and the number, or not ok (ValueError)
ToNumber(v) ==
    IF v.kind = "int" THEN [ok |-> TRUE, num |-> v.num] ELSE [ok |-> FALSE, num |-> 0]

PERSONAL_RSS_GROUP_KEY == "personal-blog-updates"

Min2(a, b) == IF a <= b THEN a ELSE b

\* position of the key w in the dict merged_by_word (0: not a key)
KeyIndex(map, w) ==
    IF \E i \in 1..Len(map) : map[i].word = w
    THEN CHOOSE i \in 1..Len(map) : map[i].word = w
    ELSE 0

\* lines 63-67: merged_by_word after the loop over the hot-list stats; a dict
\* keeps a key at its first insertion and holds the value assigned last
RECURSIVE HotListMap(_, _)
HotListMap(hot, map) ==
    IF hot = <<>> THEN map
    ELSE LET stat == Head(hot)
             i == KeyIndex(map, stat.word)
         IN  HotListMap(Tail(hot),
                 IF stat.word = "" THEN map
                 ELSE IF i = 0 THEN Append(map, stat)
                 ELSE [map EXCEPT ![i] = stat])

\* a variant that overwrites the count instead of adding to it
MergedCount_Overwrite(entry, rss_stat) ==
    LET b == ToNumber(OrElse(GetOr(rss_stat.count, 0), 0))
    IN  [ok |-> b.ok, num |-> b.num]

\* line 76
MergedCount(entry, rss_stat) ==
    LET a == ToNumber(OrElse(GetOr(entry.count, 0), 0))
        b == ToNumber(OrElse(GetOr(rss_stat.count, 0), 0))
    IN  [ok |-> a.ok /\ b.ok, num |-> a.num + b.num]

\* line 77
MergedTitles(entry, rss_stat) == entry.titles \o rss_stat.titles

\* lines 80-85
MergedPosition(entry, rss_stat) ==
    LET merged_position == GetOr(entry.position, 999)
        rss_position == GetOr(rss_stat.position, 999)
        a == ToNumber(merged_position)
        b == ToNumber(rss_position)
    IN  IF a.ok /\ b.ok THEN V(Min2(a.num, b.num)) ELSE merged_position

\* lines 88-91
MergedPercentage(entry, rss_stat) ==
    LET a == ToNumber(OrElse(GetOr(entry.percentage, 0), 0))
        b == ToNumber(OrElse(GetOr(rss_stat.percentage, 0), 0))
    IN  IF a.ok /\ b.ok THEN V(a.num + b.num) ELSE entry.percentage

\* lines 69-93: merged_by_word after the loop over the keyword RSS stats, or
\* the exception line 76 raises
RECURSIVE FoldRss(_, _)
FoldRss(rss, map) ==
    IF rss = <<>> THEN [raised |-> "", map |-> map]
    ELSE LET rss_stat == Head(rss)
             i == KeyIndex(map, rss_stat.word)
             count == MergedCount(map[i], rss_stat)
         IN  IF rss_stat.word = "" THEN FoldRss(Tail(rss), map)
             ELSE IF i = 0 THEN FoldRss(Tail(rss), Append(map, rss_stat))
             ELSE IF ~count.ok THEN [raised |-> "ValueError", map |-> <<>>]
             ELSE FoldRss(Tail(rss),
                      [map EXCEPT ![i] =
                          [word |-> map[i].word,
                           count |-> V(count.num),
                           position |-> MergedPosition(map[i], rss_stat),
                           percentage |-> MergedPercentage(map[i], rss_stat),
                           titles |-> MergedTitles(map[i], rss_stat)]])

\* tuple comparison a < b of Python, on tuples of ints
RECURSIVE LexLess(_, _)
LexLess(a, b) ==
    IF a = <<>> THEN b # <<>>
    ELSE IF b = <<>> THEN FALSE
    ELSE IF a[1] < b[1] THEN TRUE
    ELSE IF a[1] > b[1] THEN FALSE
    ELSE LexLess(Tail(a), Tail(b))

\* list.sort / sorted: stable, on records [key, item]
RECURSIVE InsertByKey(_, _)
InsertByKey(sorted, x) ==
    IF sorted = <<>> THEN <<x>>
    ELSE IF LexLess(x.key, Head(sorted).key) THEN <<x>> \o sorted
    ELSE <<Head(sorted)>> \o InsertByKey(Tail(sorted), x)

RECURSIVE StableSort(_)
StableSort(keyed) ==
    IF keyed = <<>> THEN <<>>
    ELSE InsertByKey(StableSort(SubSeq(keyed, 1, Len(keyed) - 1)), keyed[Len(keyed)])

Items(keyed) == [i \in 1..Len(keyed) |-> keyed[i].item]

\* lines 97-100: the sort key of a merged entry
CountKey(x) == ToNumber(OrElse(GetOr(x.count, 0), 0))

PositionKey(x) == ToNumber(OrElse(GetOr(x.position, 999), 999))

\* lines 95-101: the values of merged_by_word sorted, or the exception a key raises
SortMerged(map) ==
    IF \E i \in 1..Len(map) : ~CountKey(map[i]).ok \/ ~PositionKey(map[i]).ok
    THEN [raised |-> "ValueError", stats |-> <<>>]
    ELSE [raised |-> "",
          stats |-> Items(StableSort(
              [i \in 1..Len(map) |->
                  [key |-> <<-CountKey(map[i]).num, PositionKey(map[i]).num>>,
                   item |-> map[i]]]))]

\* lines 53-57
PersonalStats(rss) == SelectSeq(rss, LAMBDA x : x.word = PERSONAL_RSS_GROUP_KEY)

KeywordStats(rss) == SelectSeq(rss, LAMBDA x : x.word # PERSONAL_RSS_GROUP_KEY)

\* lines 60-101: local stats after the merge block
MergeStats(hot, rss) ==
    LET rss_keyword_stats == KeywordStats(rss)
        folded == FoldRss(rss_keyword_stats, HotListMap(hot, <<>>))
    IN  IF rss_keyword_stats = <<>> THEN [raised |-> "", stats |-> hot]
        ELSE IF folded.raised # "" THEN [raised |-> folded.raised, stats |-> <<>>]
        ELSE SortMerged(folded.map)

-----------------------------------------------------------------------------
(* PersonalFeedRegrouper: prepare_report_data lines 103-153                *)
(*                                                                         *)
(* A title dict is modelled by its title, source_name and ranks; its other *)
(* fields are copied through unchanged and are left out.                   *)

\* the printable ASCII characters as runs in code point order, each with the
\* code point of its first character (U+0060 is left out)
AsciiRuns ==
    << [first |-> 32, chars |-> " !"],
       [first |-> 34, chars |-> "\""],
       [first |-> 35, chars |-> "#$%&'("],
       [first |-> 41, chars |-> ")*+,-./0123456789:;<=>?@ABCDEFGHIJKLMNOPQRSTUVWXYZ["],
       [first |-> 92, chars |-> "\\"],
       [first |-> 93, chars |-> "]^_"],
       [first |-> 97, chars |-> "abcdefghijklmnopqrstuvwxyz{|}~"] >>

\* every printable ASCII character with its code point
AsciiCodes ==
    LET pairs == UNION { { <<SubSeq(AsciiRuns[r].chars, i, i), AsciiRuns[r].first + i - 1>> :
                             i \in 1..Len(AsciiRuns[r].chars) } :
                         r \in 1..Len(AsciiRuns) }
    IN  [c \in { p[1] : p \in pairs } |-> (CHOOSE p \in pairs : p[1] = c)[2]]

\* ord(c) of a printable ASCII character
CharCode(c) == AsciiCodes[c]

\* the code points of a feed name, for Python's str comparison in the sort
\* key of line 142
CodePoints(name) == [i \in 1..Len(name) |-> CharCode(SubSeq(name, i, i))]

RECURSIVE Concat(_)
Concat(seqs) == IF seqs = <<>> THEN <<>> ELSE Head(seqs) \o Concat(Tail(seqs))

\* lines 107-109
AllPersonalTitles(personal) ==
    Concat([i \in 1..Len(personal) |-> personal[i].titles])

\* line 113
FeedNameOf(title_data) ==
    IF title_data.source_name = "" THEN "RSS" ELSE title_data.source_name

\* lines 111-114: the keys of titles_by_feed, in insertion order
RECURSIVE FeedNames(_, _)
FeedNames(titles, seen) ==
    IF titles = <<>> THEN seen
    ELSE FeedNames(Tail(titles),
             IF \E i \in 1..Len(seen) : seen[i] = FeedNameOf(Head(titles))
             THEN seen
             ELSE Append(seen, FeedNameOf(Head(titles))))

RECURSIVE MinOf(_)
MinOf(ranks) ==
    IF Len(ranks) = 1 THEN ranks[1] ELSE Min2(ranks[1], MinOf(Tail(ranks)))

\* a variant that takes the first rank for the smallest
_rank_key_First(item) == IF item.ranks = <<>> THEN 999 ELSE item.ranks[1]

\* lines 116-123
_rank_key(item) == IF item.ranks = <<>> THEN 999 ELSE MinOf(item.ranks)

\* line 128
SortedItems(items) ==
    Items(StableSort([i \in 1..Len(items) |->
                         [key |-> <<_rank_key(items[i])>>, item |-> items[i]]]))

\* lines 131-136
CleanedItems(sorted_items) ==
    [i \in 1..Len(sorted_items) |->
        [sorted_items[i] EXCEPT !.source_name = "", !.ranks = <<>>]]

\* lines 126-139: one (feed_name, cleaned_items, latest_rank) per feed
FeedSummaries(titles) ==
    LET names == FeedNames(titles, <<>>)
    IN  [n \in 1..Len(names) |->
            LET items == SelectSeq(titles, LAMBDA t : FeedNameOf(t) = names[n])
                sorted_items == SortedItems(items)
            IN  [feed_name |-> names[n],
                 items |-> CleanedItems(sorted_items),
                 latest_rank |-> IF sorted_items # <<>>
                                 THEN _rank_key(sorted_items[1]) ELSE 999]]

\* a variant that leaves the feeds in the order they were first seen
SortedSummaries_Unsorted(summaries) == summaries

\* line 142
SortedSummaries(summaries) ==
    Items(StableSort(
        [i \in 1..Len(summaries) |->
            [key |-> <<summaries[i].latest_rank, -Len(summaries[i].items)>>
                     \o CodePoints(summaries[i].feed_name),
             item |-> summaries[i]]]))

\* lines 104-153: personal_feed_stats
PersonalFeedStats(rss) ==
    LET personal == PersonalStats(rss)
        feed_summaries == SortedSummaries(FeedSummaries(AllPersonalTitles(personal)))
    IN  IF personal = <<>> THEN <<>>
        ELSE [pos \in 1..Len(feed_summaries) |->
                 [word |-> feed_summaries[pos].feed_name,
                  count |-> V(Len(feed_summaries[pos].items)),
                  position |-> V(pos - 1),
                  titles |-> feed_summaries[pos].items,
                  percentage |-> V(0)]]

-----------------------------------------------------------------------------
(* ReportAssembler: prepare_report_data lines 155-258                      *)

\* id_to_name.get(source_id, source_id)
NameOfSource(names, source_id) ==
    IF \E p \in names : p[1] = source_id
    THEN (CHOOSE p \in names : p[1] = source_id)[2]
    ELSE source_id

\* a variant that keeps every title
AdmittedTitles_All(titles, fns) == titles

\* lines 168-171: the titles of one source the injected predicate admits
AdmittedTitles(titles, fns) == SelectSeq(titles, LAMBDA t : t \in fns.admits)

\* lines 162-176: filtered_new_titles
FilteredNewTitles(new, names, fns) ==
    IF new # <<>> /\ names # {}
    THEN IF fns.matches_supplied /\ fns.load_supplied
         THEN SelectSeq([i \in 1..Len(new) |->
                            [source_id |-> new[i].source_id,
                             titles |-> AdmittedTitles(new[i].titles, fns)]],
                        LAMBDA src : src.titles # <<>>)
         ELSE new
    ELSE <<>>

\* lines 155-214: processed_new_titles
ProcessedNewTitles(new, names, report_mode, fns) ==
    LET filtered == FilteredNewTitles(new, names, fns)
        groups == [i \in 1..Len(filtered) |->
                      [source_id |-> filtered[i].source_id,
                       source_name |-> NameOfSource(names, filtered[i].source_id),
                       titles |-> [j \in 1..Len(filtered[i].titles) |->
                                      [title |-> filtered[i].titles[j],
                                       source_name |->
                                           NameOfSource(names, filtered[i].source_id)]]]]
    IN  IF report_mode = "incremental" THEN <<>>
        ELSE IF filtered # <<>> /\ names # {}
             THEN SelectSeq(groups, LAMBDA g : g.titles # <<>>)
             ELSE <<>>

\* lines 216-243: processed_stats, or the exception stat["count"] <= 0 raises
ProcessedStats(merged) ==
    LET bad == { i \in 1..Len(merged) : merged[i].count.kind # "int" }
        first == CHOOSE i \in bad : \A j \in bad : i <= j
    IN
    IF bad # {}
    THEN \* the loop of line 217 stops at the first entry line 218 cannot test:
         \* stat["count"] of a dict without count, or a str compared with 0
         [raised |-> IF merged[first].count.kind = "absent"
                     THEN "KeyError" ELSE "TypeError",
          stats |-> <<>>]
    ELSE [raised |-> "",
          stats |-> LET kept == SelectSeq(merged, LAMBDA x : x.count.num > 0)
                    IN  [i \in 1..Len(kept) |->
                            [word |-> kept[i].word,
                             count |-> kept[i].count,
                             percentage |-> GetOr(kept[i].percentage, 0),
                             titles |-> kept[i].titles]]]

RECURSIVE SumLen(_)
SumLen(groups) ==
    IF groups = <<>> THEN 0 ELSE Len(Head(groups).titles) + SumLen(Tail(groups))

NoPayload ==
    [stats |-> <<>>, new_titles |-> <<>>, rss_stats |-> <<>>, rss_new_stats |-> <<>>,
     failed_ids |-> <<>>, total_new_count |-> 0]

\* the whole call: prepare_report_data(stats, None, new_titles, id_to_name, mode,
\* rank_threshold, matches_word_groups_func, load_frequency_words_func, rss_stats)
Call_prepare_report_data ==
    /\ op = "none"
    /\ op' = "prepare_report_data"
    /\ LET after_merge == MergeStats(stats, rss_stats)
           processed == ProcessedStats(after_merge.stats)
           processed_new_titles == ProcessedNewTitles(new_titles, id_to_name, mode, funcs)
       IN  IF after_merge.raised # ""
           THEN /\ raised' = after_merge.raised
                /\ merged_stats' = <<>>
                /\ payload' = NoPayload
           ELSE /\ merged_stats' = after_merge.stats
                /\ IF processed.raised # ""
                   THEN /\ raised' = processed.raised
                        /\ payload' = NoPayload
                   ELSE /\ raised' = ""
                        /\ payload' =
                             [stats |-> processed.stats,
                              new_titles |-> processed_new_titles,
                              rss_stats |-> PersonalFeedStats(rss_stats),
                              rss_new_stats |-> <<>>,
                              failed_ids |-> <<>>,
                              total_new_count |-> SumLen(processed_new_titles)]
    /\ UNCHANGED <<ret, matchVars, rulebookVars, loaderVars, reportVars>>

NextReport == Call_prepare_report_data

-----------------------------------------------------------------------------
(* prepare_report_data on enumerated inputs.                               *)

\* a title dict of a keyword stat
T(text) == [title |-> text, source_name |-> "feed", ranks |-> <<1>>]

StatEntries(words, counts, positions, percentages, titles) ==
    [word : words, count : counts, position : positions,
     percentage : percentages, titles : titles]

\* stats from pairs[1] and rss_stats from pairs[2], at most MaxEntries entries
\* together
InitReportWith(pairs) ==
    /\ op = "none"
    /\ ret = "none"
    /\ IdleMatch
    /\ IdleRulebook
    /\ IdleLoader
    /\ \E n \in 0..MaxEntries, k \in 0..MaxEntries :
          /\ k <= n
          /\ stats \in [1..k -> pairs[1]]
          /\ rss_stats \in [1..(n - k) -> pairs[2]]
    /\ new_titles = <<>>
    /\ id_to_name = {}
    /\ mode = "daily"
    /\ funcs = [matches_supplied |-> FALSE, load_supplied |-> FALSE, admits |-> {}]
    /\ merged_stats = <<>>
    /\ payload = "none"
    /\ raised = ""

\* counts and titles vary, every field well-formed
InitMerge ==
    InitReportWith(
        << StatEntries({"", "w1", "w2"}, {V(0), V(1), V(2)}, {Absent}, {V(0)},
                       {<<T("h1")>>, <<T("h1"), T("h2")>>}),
           StatEntries({"", "w1", "w2"}, {V(0), V(1), V(2)}, {Absent}, {V(0)},
                       {<<>>, <<T("r1")>>, <<T("r2")>>}) >>)

SpecMerge == InitMerge /\ [][NextReport]_vars

\* counts and positions vary, every field well-formed
InitOrder ==
    InitReportWith(
        << StatEntries({"w1", "w2", "w3"}, {V(1), V(2)}, {Absent, V(0), V(1)}, {V(0)},
                       {<<>>}),
           StatEntries({"w1", "w2", "w3"}, {V(1), V(2)}, {Absent, V(0), V(1)}, {V(0)},
                       {<<>>}) >>)

SpecOrder == InitOrder /\ [][NextReport]_vars

\* count, position and percentage may hold a str that is no number
InitCoerce ==
    InitReportWith(
        << StatEntries({"w1", "w2"}, {V(1), BadStr}, {V(1), BadStr}, {V(1), BadStr},
                       {<<>>}),
           StatEntries({"w1", "w2"}, {V(1), BadStr}, {V(2), BadStr}, {V(1), BadStr},
                       {<<>>}) >>)

SpecCoerce == InitCoerce /\ [][NextReport]_vars

TitleTexts == <<"t1", "t2", "t3", "t4", "t5">>

SourceNames == {"", "A", "AB", "RSS"}

RanksPool == {<<>>, <<1>>, <<2>>, <<5, 2>>}

PersonalEntry(titles) ==
    [word |-> PERSONAL_RSS_GROUP_KEY, count |-> V(Len(titles)), position |-> Absent,
     percentage |-> V(0), titles |-> titles]

\* the personal RSS group: up to MaxPersonalTitles titles, in one or two stats
InitRegroup ==
    /\ op = "none"
    /\ ret = "none"
    /\ IdleMatch
    /\ IdleRulebook
    /\ IdleLoader
    /\ stats = <<>>
    /\ \E n \in 0..MaxPersonalTitles :
          \E names \in [1..n -> SourceNames], ranks \in [1..n -> RanksPool], k \in 0..n :
              LET titles == [i \in 1..n |-> [title |-> TitleTexts[i],
                                             source_name |-> names[i],
                                             ranks |-> ranks[i]]]
              IN  rss_stats = << PersonalEntry(SubSeq(titles, 1, k)),
                                 PersonalEntry(SubSeq(titles, k + 1, n)) >>
    /\ new_titles = <<>>
    /\ id_to_name = {}
    /\ mode = "daily"
    /\ funcs = [matches_supplied |-> FALSE, load_supplied |-> FALSE, admits |-> {}]
    /\ merged_stats = <<>>
    /\ payload = "none"
    /\ raised = ""

SpecRegroup == InitRegroup /\ [][NextReport]_vars

NewTitleTexts == {"ta", "tb", "tc"}

\* the titles dict of one source: distinct titles, in insertion order
TitleLists ==
    { ts \in SeqsUpTo(NewTitleTexts, MaxTitlesPerSource) :
        \A i, j \in 1..Len(ts) : i # j => ts[i] # ts[j] }

SourceLists == { <<>>, <<"s1">>, <<"s2">>, <<"s1", "s2">>, <<"s2", "s1">> }

InitNew ==
    /\ op = "none"
    /\ ret = "none"
    /\ IdleMatch
    /\ IdleRulebook
    /\ IdleLoader
    /\ stats = <<>>
    /\ rss_stats = <<>>
    /\ \E srcs \in SourceLists :
          \E tls \in [1..Len(srcs) -> TitleLists] :
              new_titles = [i \in 1..Len(srcs) |->
                               [source_id |-> srcs[i], titles |-> tls[i]]]
    /\ id_to_name \in { {}, {<<"s1", "Name1">>}, {<<"s1", "Name1">>, <<"s2", "Name2">>} }
    /\ mode \in {"daily", "current", "incremental"}
    /\ funcs \in [matches_supplied : BOOLEAN, load_supplied : BOOLEAN,
                  admits : SUBSET NewTitleTexts]
    /\ merged_stats = <<>>
    /\ payload = "none"
    /\ raised = ""

SpecNew == InitNew /\ [][NextReport]_vars

-----------------------------------------------------------------------------
(* Claims about the StatMerger.                                            *)

\* the merge block runs: there is a keyword-bearing RSS stat (line 60)
MergeRan ==
    /\ op = "prepare_report_data"
    /\ KeywordStats(rss_stats) # <<>>

WithWord(entries, w) == SelectSeq(entries, LAMBDA x : x.word = w)

RECURSIVE SumOfCounts(_)
SumOfCounts(entries) ==
    IF entries = <<>> THEN 0 ELSE Head(entries).count.num + SumOfCounts(Tail(entries))

TitlesOf(entries) == Concat([i \in 1..Len(entries) |-> entries[i].titles])

Last(entries) == entries[Len(entries)]

\* the hot-list entry an RSS entry with word w is merged into
HotEntryFor(w) == Last(WithWord(stats, w))

HasHotEntry(w) == w # "" /\ WithWord(stats, w) # <<>>

\* the entry of the merged stats for word w
MergedEntryFor(w) == WithWord(merged_stats, w)[1]

\* C5 as stated: an RSS entry merged into the hot-list entry of the same
\* non-empty word gives an entry whose count is the sum of the two counts and
\* whose titles are the hot-list titles followed by the RSS titles; an RSS
\* entry whose word has no hot-list entry appears as its own entry, count and
\* titles unchanged.
C5_PairwiseMerge ==
    (MergeRan /\ raised = "") =>
        \A j \in 1..Len(rss_stats) :
            LET r == rss_stats[j]
            IN  r.word # "" =>
                   /\ Len(WithWord(merged_stats, r.word)) = 1
                   /\ IF HasHotEntry(r.word)
                      THEN /\ MergedEntryFor(r.word).count
                                = V(HotEntryFor(r.word).count.num + r.count.num)
                           /\ MergedEntryFor(r.word).titles
                                = HotEntryFor(r.word).titles \o r.titles
                      ELSE /\ MergedEntryFor(r.word).count = r.count
                           /\ MergedEntryFor(r.word).titles = r.titles

\* C5 amended: all RSS entries of a non-empty word are folded, in list order,
\* into one entry: into the hot-list entry of that word (the last one, when
\* the hot list repeats the word), whose count becomes its own count plus the
\* counts of those RSS entries and whose titles become its own titles
\* followed by theirs; or, without a hot-list entry, into the first RSS entry
\* of the word, which stays unchanged when it is the only one.
C5_MergeFold ==
    (MergeRan /\ raised = "") =>
        \A j \in 1..Len(rss_stats) :
            LET w == rss_stats[j].word
                rs == WithWord(rss_stats, w)
            IN  w # "" =>
                   /\ Len(WithWord(merged_stats, w)) = 1
                   /\ IF HasHotEntry(w)
                      THEN /\ MergedEntryFor(w).count
                                = V(HotEntryFor(w).count.num + SumOfCounts(rs))
                           /\ MergedEntryFor(w).titles
                                = HotEntryFor(w).titles \o TitlesOf(rs)
                      ELSE IF Len(rs) = 1
                      THEN MergedEntryFor(w) = rs[1]
                      ELSE /\ MergedEntryFor(w).count = V(SumOfCounts(rs))
                           /\ MergedEntryFor(w).titles = TitlesOf(rs)

\* a hot-list entry (count 2, two titles) merged with an RSS entry (count 1, one
\* title) into an entry of count 3 with the three titles, hot-list titles
\* first, beside an RSS entry of another word that has no hot-list entry
C5_Witness ==
    /\ MergeRan
    /\ raised = ""
    /\ Len(stats) = 1
    /\ Len(rss_stats) = 2
    /\ stats[1].count = V(2)
    /\ Len(stats[1].titles) = 2
    /\ rss_stats[1].word = stats[1].word
    /\ rss_stats[1].count = V(1)
    /\ rss_stats[2].word \notin {"", stats[1].word}
    /\ rss_stats[2].count = V(1)
    /\ Len(merged_stats) = 2
    /\ merged_stats[1].count = V(3)
    /\ merged_stats[1].titles = <<T("h1"), T("h2"), T("r1")>>
    /\ merged_stats[2] = rss_stats[2]

\* the position the ordering uses: the position itself, 999 when it is missing
ClaimedPosition(x) == IF x.position.kind = "absent" THEN 999 ELSE x.position.num

\* where a word first enters the merge: hot-list entries first, then RSS
InsertionIndex(w) ==
    LET words == [i \in 1..Len(stats) |-> stats[i].word]
                 \o [i \in 1..Len(rss_stats) |-> rss_stats[i].word]
    IN  CHOOSE i \in 1..Len(words) :
            words[i] = w /\ \A k \in 1..(i - 1) : words[k] # w

\* C6: the merged entries are in the order of a stable sort on
\* (-count, position): higher count first; on equal counts the numerically
\* lower position first, for every integer position >= 0, a missing position
\* counting as 999; entries equal on both keep their insertion order.
C6_StableOrder ==
    (MergeRan /\ raised = "") =>
        \A i, j \in 1..Len(merged_stats) :
            i < j =>
                LET a == merged_stats[i]
                    b == merged_stats[j]
                IN  \/ a.count.num > b.count.num
                    \/ /\ a.count.num = b.count.num
                       /\ ClaimedPosition(a) < ClaimedPosition(b)
                    \/ /\ a.count.num = b.count.num
                       /\ ClaimedPosition(a) = ClaimedPosition(b)
                       /\ InsertionIndex(a.word) < InsertionIndex(b.word)

\* C9: a count, percentage or position that cannot be converted to a number
\* never aborts the merge: the merge step completes without raising and
\* every word of the inputs still has its entry in the merged, ordered stats.
C9_CoercionNeverAborts ==
    MergeRan =>
        /\ raised # "ValueError"
        /\ \A i \in 1..Len(stats) :
              stats[i].word # "" => WithWord(merged_stats, stats[i].word) # <<>>
        /\ \A j \in 1..Len(rss_stats) :
              rss_stats[j].word # "" => WithWord(merged_stats, rss_stats[j].word) # <<>>

\* the keyword-bearing RSS entries the merge loop does not skip (lines 70-72)
WordedKeywordStats == SelectSeq(KeywordStats(rss_stats), LAMBDA x : x.word # "")

\* C11: merging loses no mentions: when the merge runs on integer counts, the
\* sum of count over the merged entries equals the sum of count over all
\* hot-list entries plus the sum over all keyword-bearing RSS entries with a
\* non-empty word, also when a word occurs in several hot-list entries or
\* in several RSS entries.
C11_CountConserved ==
    (MergeRan /\ raised = "") =>
        SumOfCounts(merged_stats)
            = SumOfCounts(stats) + SumOfCounts(WordedKeywordStats)

-----------------------------------------------------------------------------
(* Claims about the PersonalFeedRegrouper and the new-title section.       *)

\* the title dicts of the sentinel group, as given
PersonalInput == AllPersonalTitles(PersonalStats(rss_stats))

InputOf(text) ==
    CHOOSE t \in Range(PersonalInput) : t.title = text

\* the minimum rank of a title, empty ranks counting as 999
MinRank(text) ==
    LET ranks == InputOf(text).ranks
    IN  IF ranks = <<>> THEN 999
        ELSE CHOOSE m \in Range(ranks) : \A r \in Range(ranks) : m <= r

\* the bucket of a title: its source_name, "RSS" when that is blank
BucketOf(text) ==
    IF InputOf(text).source_name = "" THEN "RSS" ELSE InputOf(text).source_name

\* (latest_rank, -item_count, feed_name) of an emitted bucket
BucketKey(e) ==
    <<MinRank(e.titles[1].title), -Len(e.titles)>> \o CodePoints(e.word)

\* C7: the titles of the sentinel group are bucketed by source_name (blank:
\* bucket "RSS"); within a bucket they are in ascending order of minimum rank
\* (empty ranks: 999); the buckets come in ascending order of (latest_rank,
\* -item_count, feed_name), latest_rank being the minimum rank of the bucket's
\* first item; each bucket's position is its index in that order.
C7_RegroupOrder ==
    (op = "prepare_report_data" /\ raised = "") =>
        LET out == payload.rss_stats
        IN  /\ \A t \in Range(PersonalInput) :
                  \E a \in 1..Len(out) :
                      /\ out[a].word = BucketOf(t.title)
                      /\ \E i \in 1..Len(out[a].titles) : out[a].titles[i].title = t.title
            /\ \A a \in 1..Len(out) :
                  /\ out[a].titles # <<>>
                  /\ \A i \in 1..Len(out[a].titles) :
                        BucketOf(out[a].titles[i].title) = out[a].word
                  /\ \A i, j \in 1..Len(out[a].titles) :
                        i < j => /\ out[a].titles[i].title # out[a].titles[j].title
                                 /\ MinRank(out[a].titles[i].title)
                                      <= MinRank(out[a].titles[j].title)
                  /\ out[a].position = V(a - 1)
                  /\ out[a].count = V(Len(out[a].titles))
            /\ \A a, b \in 1..Len(out) :
                  a < b => LexLess(BucketKey(out[a]), BucketKey(out[b]))

\* two feeds with the same latest rank: the one with two items comes first,
\* and its items were reordered by rank (t2 before t1)
C7_Witness ==
    /\ op = "prepare_report_data"
    /\ raised = ""
    /\ Len(payload.rss_stats) = 2
    /\ Len(payload.rss_stats[1].titles) = 2
    /\ payload.rss_stats[1].titles[1].title = "t2"
    /\ payload.rss_stats[1].titles[2].title = "t1"
    /\ MinRank("t2") < MinRank("t1")
    /\ MinRank("t3") = MinRank("t2")
    /\ payload.rss_stats[2].word = "A"
    /\ payload.rss_stats[1].word = "RSS"

\* the new-title section is computed with the injected predicate
NewSectionFiltered ==
    /\ op = "prepare_report_data"
    /\ raised = ""
    /\ mode # "incremental"
    /\ funcs.matches_supplied
    /\ funcs.load_supplied

Admitted(titles) == SelectSeq(titles, LAMBDA t : t \in funcs.admits)

TitleTextsOf(g) == [i \in 1..Len(g.titles) |-> g.titles[i].title]

\* one group per source with an admitted title, holding exactly the admitted
\* titles; no group for any other source; total_new_count is their number
NewTitlesAreTheAdmitted ==
    /\ \A i \in 1..Len(new_titles) :
          Admitted(new_titles[i].titles) # <<>> =>
              /\ Cardinality({ k \in 1..Len(payload.new_titles) :
                     payload.new_titles[k].source_id = new_titles[i].source_id }) = 1
              /\ \E k \in 1..Len(payload.new_titles) :
                    /\ payload.new_titles[k].source_id = new_titles[i].source_id
                    /\ TitleTextsOf(payload.new_titles[k]) = Admitted(new_titles[i].titles)
    /\ \A k \in 1..Len(payload.new_titles) :
          \E i \in 1..Len(new_titles) :
              /\ new_titles[i].source_id = payload.new_titles[k].source_id
              /\ Admitted(new_titles[i].titles) # <<>>
    /\ payload.total_new_count = SumLen(payload.new_titles)

\* C8 as stated: in every mode but "incremental", with the predicate and the
\* loader supplied, new_titles has exactly one group per source with an
\* admitted new title, holding that source's admitted titles, none for a
\* source with no admitted title, and total_new_count counts those titles.
C8_NewTitlesFiltered == NewSectionFiltered => NewTitlesAreTheAdmitted

\* C8 amended: the same, provided id_to_name is a non-empty mapping; with an
\* empty (or no) id_to_name the section is empty and total_new_count is 0.
C8_NewTitlesFilteredWithNames ==
    NewSectionFiltered =>
        /\ id_to_name # {} => NewTitlesAreTheAdmitted
        /\ id_to_name = {} => (payload.new_titles = <<>> /\ payload.total_new_count = 0)

\* two sources: the first keeps one of its two titles, the second loses its
\* only title and gets no group
C8_Witness ==
    /\ NewSectionFiltered
    /\ id_to_name # {}
    /\ Len(new_titles) = 2
    /\ Len(new_titles[1].titles) = 2
    /\ Len(new_titles[2].titles) = 1
    /\ Len(Admitted(new_titles[1].titles)) = 1
    /\ Admitted(new_titles[2].titles) = <<>>
    /\ Len(payload.new_titles) = 1
    /\ payload.total_new_count = 1

=============================================================================
